---- MODULE Spec2Model ----
(***************************************************************************)
(* Model of the entity-alias registry AliasRecord                          *)
(* (grade_conversion_script/util/alias_record.py): the store that maps     *)
(* integer entity IDs to sets of alias strings, its add / merge / lookup   *)
(* operations, the table binding (id_of_df) and the reconciliation         *)
(* functions built on it.                                                  *)
(***************************************************************************)
EXTENDS Integers, Sequences, FiniteSets, TLC

\* ---------------------------------------------------------------- bounds
\* number of entities a behaviour may create
MaxEntities == 3
\* length of an alias collection handed to one call
MaxLen == 2
\* number of records of an add_bulk call, rows of a table, destination alias
\* groups and input IDs of a reconciliation, pairs a matcher returns
MaxRows == 2
\* number of threads that call the store at the same time
MaxThreads == 2

\* the longest string handed to best_effort_is_name by itself
MaxChars == 3

\* ------------------------------------------------------ program constants
\* AliasRecord.__init__: self._next_id = 400
BaseId == 400

\* The alias strings the callers draw from.
Aliases == {"student@mail.com", "Name One (copy 1)", "name1"}

\* The labels of the destination (the gradebook's rows): two of the callers'
\* alias strings and one no input names.
DestAliases == {"Name One (copy 1)", "name1", "Name Two"}

\* Python's None, for `last_id: int | None` (IDs start at 400, so 0 is free)
None == 0

VARIABLES
    dict,       \* AliasRecord._dict : entity ID -> set of aliases
    next_id,    \* AliasRecord._next_id
    pend,       \* the matcher call a reconciliation is waiting for, if any
    last,       \* the call under observation: operation, arguments, outcome
    prev,       \* the store as it was when that call was made
    calls,      \* per thread, the call it is in the middle of and its position
    overlap,    \* some call has started while another was in progress
    gui         \* the student matcher element shown to the user, if any

vars == <<dict, next_id, pend, last, prev, calls, overlap, gui>>

\* ---------------------------------------------------------------- helpers
Range(s) == {s[i] : i \in DOMAIN s}

SeqsUpTo(S, n) == UNION {[1..k -> S] : k \in 0..n}

Min(S) == CHOOSE x \in S : \A y \in S : x <= y

Max(S) == CHOOSE x \in S : \A y \in S : x >= y

\* the store as one value, threaded through the operations
Store(d, n) == [dict |-> d, next_id |-> n]

\* an operation's outcome: the exception raised ("ok" when none), the store
\* as the operation leaves it, and its return value
Outcome(e, st, v) == [err |-> e, dict |-> st.dict, next_id |-> st.next_id, val |-> v]

StOf(r) == Store(r.dict, r.next_id)

\* ------------------------------------------------------------- AliasRecord

\* property all_aliases: union of every entity's alias set
all_aliases(d) == UNION {d[i] : i \in DOMAIN d}

\* __contains__ for a string item: a str never equals an int key of _dict,
\* so only the alias branch can answer True
contains(d, item) == item \in all_aliases(d)

\* _new_id with an increment of two
new_id_skip(st) ==
    [val |-> st.next_id,
     st  |-> Store([i \in DOMAIN st.dict \cup {st.next_id} |->
                        IF i = st.next_id THEN {} ELSE st.dict[i]],
                   st.next_id + 2)]

\* _new_id: hand out _next_id, increment it, register an empty alias set
new_id(st) ==
    [val |-> st.next_id,
     st  |-> Store([i \in DOMAIN st.dict \cup {st.next_id} |->
                        IF i = st.next_id THEN {} ELSE st.dict[i]],
                   st.next_id + 1)]

\* id_of that answers with the first ID of _dict as soon as any entity holds
\* the alias
id_of_first(d, alias) ==
    IF \E i \in DOMAIN d : alias \in d[i]
    THEN Min(DOMAIN d)
    ELSE None

\* id_of for a single alias: scan _dict in insertion order (IDs are inserted
\* in increasing order), return the first ID whose set holds the alias;
\* None stands for AliasNotFoundException
id_of(d, alias) ==
    IF \E i \in DOMAIN d : alias \in d[i]
    THEN Min({i \in DOMAIN d : alias \in d[i]})
    ELSE None

\* Python's None for an argument typed `str | None` (no alias is spelled so)
NoneStr == "None"

\* all_aliases_of(id=..., alias=...): exactly one of the two anchors must be
\* given; by ID the entity's set is returned, by alias the ID is looked up
\* first
all_aliases_of(d, id, alias) ==
    IF id = None /\ alias = NoneStr
    THEN [err |-> "ValueError", val |-> {}]
    ELSE IF alias = NoneStr
    THEN IF id \in DOMAIN d
         THEN [err |-> "ok", val |-> d[id]]
         ELSE [err |-> "IdNotFoundException", val |-> {}]
    ELSE IF id = None
    THEN IF id_of(d, alias) = None
         THEN [err |-> "AliasNotFoundException", val |-> {}]
         ELSE [err |-> "ok", val |-> d[id_of(d, alias)]]
    ELSE [err |-> "ValueError", val |-> {}]

\* add_at_id without the check for aliases owned by another entity
add_at_id_nocheck(st, id, aliases) ==
    IF id \notin DOMAIN st.dict
    THEN Outcome("AssertionError", st, None)
    ELSE Outcome("ok",
                 Store([st.dict EXCEPT ![id] = @ \cup Range(aliases)], st.next_id),
                 None)

\* add_at_id that stores the aliases while it checks them
add_at_id_partial(st, id, aliases) ==
    IF id \notin DOMAIN st.dict
    THEN Outcome("AssertionError", st, None)
    ELSE LET bad == {i \in DOMAIN aliases :
                        /\ aliases[i] \notin st.dict[id]
                        /\ contains(st.dict, aliases[i])}
         IN IF bad # {}
            THEN Outcome("ValueError",
                         Store([st.dict EXCEPT ![id] =
                                   @ \cup {aliases[i] : i \in 1..(Min(bad) - 1)}],
                               st.next_id),
                         None)
            ELSE Outcome("ok",
                         Store([st.dict EXCEPT ![id] = @ \cup Range(aliases)],
                               st.next_id),
                         None)

\* add_at_id that refuses every alias the store knows, the entity's own too
add_at_id_strict(st, id, aliases) ==
    IF id \notin DOMAIN st.dict
    THEN Outcome("AssertionError", st, None)
    ELSE IF \E i \in DOMAIN aliases : contains(st.dict, aliases[i])
         THEN Outcome("ValueError", st, None)
         ELSE Outcome("ok",
                      Store([st.dict EXCEPT ![id] = @ \cup Range(aliases)],
                            st.next_id),
                      None)

\* add_at_id that sets the entity's aliases to the ones given
add_at_id_replace(st, id, aliases) ==
    IF id \notin DOMAIN st.dict
    THEN Outcome("AssertionError", st, None)
    ELSE IF \E i \in DOMAIN aliases :
                /\ aliases[i] \notin st.dict[id]
                /\ contains(st.dict, aliases[i])
         THEN Outcome("ValueError", st, None)
         ELSE Outcome("ok",
                      Store([st.dict EXCEPT ![id] = Range(aliases)], st.next_id),
                      None)

\* add_at_id: every alias is checked first (already in this entity: fine;
\* known to the store otherwise: ValueError), then all are added at once
add_at_id(st, id, aliases) ==
    IF id \notin DOMAIN st.dict
    THEN Outcome("AssertionError", st, None)
    ELSE IF \E i \in DOMAIN aliases :
                /\ aliases[i] \notin st.dict[id]
                /\ contains(st.dict, aliases[i])
         THEN Outcome("ValueError", st, None)
         ELSE Outcome("ok",
                      Store([st.dict EXCEPT ![id] = @ \cup Range(aliases)],
                            st.next_id),
                      None)

\* the loop of id_together: ids found so far and the last ID found
RECURSIVE id_together_loop(_, _, _, _, _)
id_together_loop(d, aliases, i, ids, last_id) ==
    IF i > Len(aliases)
    THEN [ids |-> ids, last_id |-> last_id]
    ELSE IF last_id # None /\ aliases[i] \in d[last_id]
         THEN id_together_loop(d, aliases, i + 1, ids, last_id)
         ELSE LET id == id_of(d, aliases[i])
              IN IF id = None
                 THEN id_together_loop(d, aliases, i + 1, ids, last_id)
                 ELSE id_together_loop(d, aliases, i + 1, ids \cup {id}, id)

\* id_together that reports aliases of several entities as aliases of none
id_together_notfound(d, aliases) ==
    LET r == id_together_loop(d, aliases, 1, {}, None)
    IN IF Cardinality(r.ids) # 1
       THEN [err |-> "AliasNotFoundException", id |-> None]
       ELSE [err |-> "ok", id |-> r.last_id]

\* id_together: the one entity the aliases belong to
id_together(d, aliases) ==
    LET r == id_together_loop(d, aliases, 1, {}, None)
    IN IF r.last_id = None
       THEN [err |-> "AliasNotFoundException", id |-> None]
       ELSE IF Cardinality(r.ids) > 1
            THEN [err |-> "ValueError", id |-> None]
            ELSE [err |-> "ok", id |-> r.last_id]

\* add_together that adds to the entity found only the first alias given
add_together_first(st, aliases, allow_new) ==
    LET t == id_together(st.dict, aliases)
        first == IF aliases = << >> THEN << >> ELSE <<aliases[1]>>
    IN IF t.err = "ValueError"
       THEN Outcome("ValueError", st, None)
       ELSE IF t.err = "AliasNotFoundException"
            THEN IF allow_new
                 THEN LET n == new_id(st) IN add_at_id(n.st, n.val, first)
                 ELSE Outcome("AliasNotFoundException", st, None)
            ELSE add_at_id(st, t.id, first)

\* add_together that takes a new ID before it looks the aliases up
add_together_eager(st, aliases, allow_new) ==
    LET t == id_together(st.dict, aliases)
        n == new_id(st)
    IN IF t.err = "ValueError"
       THEN Outcome("ValueError", n.st, None)
       ELSE IF t.err = "AliasNotFoundException"
            THEN IF allow_new
                 THEN add_at_id(n.st, n.val, aliases)
                 ELSE Outcome("AliasNotFoundException", n.st, None)
            ELSE add_at_id(n.st, n.val, aliases)

\* add_together: merge into the entity id_together finds, or into a new one
add_together(st, aliases, allow_new) ==
    LET t == id_together(st.dict, aliases)
    IN IF t.err = "ValueError"
       THEN Outcome("ValueError", st, None)
       ELSE IF t.err = "AliasNotFoundException"
            THEN IF allow_new
                 THEN LET n == new_id(st) IN add_at_id(n.st, n.val, aliases)
                 ELSE Outcome("AliasNotFoundException", st, None)
            ELSE add_at_id(st, t.id, aliases)

\* add_new_entity, the isinstance(alias, str) branch
add_new_entity_str(st, alias) ==
    IF alias \in all_aliases(st.dict)
    THEN Outcome("ValueError", st, None)
    ELSE LET n == new_id(st) IN add_at_id(n.st, n.val, <<alias>>)

\* the loop of add_new_entity over a collection: one recursive call per alias
RECURSIVE add_new_entity_loop(_, _, _)
add_new_entity_loop(st, aliases, i) ==
    IF i > Len(aliases)
    THEN Outcome("ok", st, None)
    ELSE LET r == add_new_entity_str(st, aliases[i])
         IN IF r.err # "ok"
            THEN r
            ELSE add_new_entity_loop(StOf(r), aliases, i + 1)

\* add_new_entity that makes one entity of a collection of aliases
add_new_entity_one(st, aliases, hashable) ==
    IF ~hashable
    THEN Outcome("TypeError", st, None)
    ELSE IF \E i \in DOMAIN aliases : aliases[i] \in all_aliases(st.dict)
         THEN Outcome("ValueError", st, None)
         ELSE LET n == new_id(st) IN add_at_id(n.st, n.val, aliases)

\* add_new_entity given a collection of aliases. `alias in self.all_aliases`
\* hashes the collection: a list is unhashable (TypeError), a tuple is hashed
\* and is no member of a set of strings; then each alias becomes its own
\* entity through a recursive call
add_new_entity(st, aliases, hashable) ==
    IF ~hashable
    THEN Outcome("TypeError", st, None)
    ELSE add_new_entity_loop(st, aliases, 1)

\* the loop of add_bulk: add_together per record
RECURSIVE add_bulk_loop(_, _, _, _)
add_bulk_loop(st, records, allow_new, i) ==
    IF i > Len(records)
    THEN Outcome("ok", st, None)
    ELSE LET r == add_together(st, records[i], allow_new)
         IN IF r.err # "ok"
            THEN r
            ELSE add_bulk_loop(StOf(r), records, allow_new, i + 1)

\* add_bulk for an iterable of alias collections
add_bulk(st, records, allow_new) ==
    add_bulk_loop(st, records, allow_new, 1)

\* ------------------------------------------------------------- id_of_df

\* a scan of the row that keeps the last candidate value the store knows
first_known_last(d, row, i) ==
    LET hits == {j \in i..Len(row) : contains(d, row[j])}
    IN IF hits = {} THEN None ELSE id_of(d, row[Max(hits)])

\* the scan of one row's candidate values: the ID of the first one the store
\* knows (`alias in self`, then id_of), None when it knows none
RECURSIVE first_known(_, _, _)
first_known(d, row, i) ==
    IF i > Len(row)
    THEN None
    ELSE IF contains(d, row[i])
         THEN id_of(d, row[i])
         ELSE first_known(d, row, i + 1)

\* the row loop of id_of_df; table[i] is row i of priority_aliases_df, ids the
\* part of id_series filled so far
RECURSIVE id_of_df_loop(_, _, _, _, _, _)
id_of_df_loop(st, table, expect_new, collect_new, i, ids) ==
    IF i > Len(table)
    THEN Outcome("ok", st, ids)
    ELSE LET found == first_known(st.dict, table[i], 1)
         IN IF found = None /\ ~expect_new
            THEN Outcome("AliasNotFoundException", st, ids)
            ELSE LET n   == new_id(st)
                     st1 == IF found = None THEN n.st ELSE st
                     id  == IF found = None THEN n.val ELSE found
                     r   == IF collect_new
                            THEN add_at_id(st1, id, table[i])
                            ELSE Outcome("ok", st1, None)
                 IN IF r.err # "ok"
                    THEN Outcome(r.err, StOf(r), ids)
                    ELSE id_of_df_loop(StOf(r), table, expect_new, collect_new,
                                       i + 1, Append(ids, id))

\* id_of_df that never collects the rows' values
id_of_df_nocollect(st, table, expect_new, collect_new) ==
    id_of_df_loop(st, table, expect_new, FALSE, 1, << >>)

\* id_of_df that collects the rows' values whatever collect_new says
id_of_df_collect(st, table, expect_new, collect_new) ==
    id_of_df_loop(st, table, expect_new, TRUE, 1, << >>)

\* id_of_df: the column of IDs of a table, one row at a time
id_of_df(st, table, expect_new, collect_new) ==
    id_of_df_loop(st, table, expect_new, collect_new, 1, << >>)

\* ----------------------------------------------------------- reindex_by_id

\* the row keys of a DataFrame built without an index: 0, 1, ...
RangeIndex(n) == [i \in 1..n |-> i - 1]

\* sequences without repetition
Distinct(s) == \A i, j \in DOMAIN s : i # j => s[i] # s[j]

\* DataFrame.set_index that takes any keys
set_index_noverify(index, keys) ==
    [err |-> "ok", index |-> keys]

\* DataFrame.set_index(keys, verify_integrity=True, inplace=True): the row
\* keys are replaced, unless a key repeats, which raises ValueError and
\* leaves the frame as it was
set_index(index, keys) ==
    IF Distinct(keys)
    THEN [err |-> "ok", index |-> keys]
    ELSE [err |-> "ValueError", index |-> index]

\* what reindex_by_id leaves: `result` the row keys of the frame it returns
\* (None when it raises), `df` the row keys of the caller's frame afterwards;
\* the rows themselves are not touched
Frames(result, df) == [result |-> result, df |-> df]

\* reindex_by_id(df, alias_col, inplace=..., **kwargs): `if inplace` the
\* method goes on with a copy of df, otherwise with the caller's frame itself;
\* id_of_df derives the IDs (and may raise, and changes the store) and
\* set_index re-keys the frame the method works on, which it returns
reindex_by_id(st, index, table, inplace, expect_new, collect_new) ==
    LET new_index == id_of_df(st, table, expect_new, collect_new)
        rekeyed   == set_index(index, new_index.val)
    IN IF new_index.err # "ok"
       THEN Outcome(new_index.err, StOf(new_index), Frames(None, index))
       ELSE IF rekeyed.err # "ok"
       THEN Outcome(rekeyed.err, StOf(new_index), Frames(None, index))
       ELSE Outcome("ok", StOf(new_index),
                    Frames(rekeyed.index,
                           IF inplace THEN index ELSE rekeyed.index))

\* ------------------------------------------------------ best_effort_is_name

Upper == {"A", "B", "C", "D", "E", "F", "G", "H", "I", "J", "K", "L", "M",
          "N", "O", "P", "Q", "R", "S", "T", "U", "V", "W", "X", "Y", "Z"}

Lower == {"a", "b", "c", "d", "e", "f", "g", "h", "i", "j", "k", "l", "m",
          "n", "o", "p", "q", "r", "s", "t", "u", "v", "w", "x", "y", "z"}

Digit == {"0", "1", "2", "3", "4", "5", "6", "7", "8", "9"}

\* the characters of the alias strings
Chars(alias) ==
    CASE alias = "student@mail.com" ->
            <<"s", "t", "u", "d", "e", "n", "t", "@", "m", "a", "i", "l", ".",
              "c", "o", "m">>
      [] alias = "Name One (copy 1)" ->
            <<"N", "a", "m", "e", " ", "O", "n", "e", " ", "(", "c", "o", "p",
              "y", " ", "1", ")">>
      [] alias = "name1" -> <<"n", "a", "m", "e", "1">>
      [] alias = "Name Two" -> <<"N", "a", "m", "e", " ", "T", "w", "o">>

isalpha(c) == c \in Upper \cup Lower

\* s.index(c) and s.rindex(c), 1-based
index(s, c) == Min({i \in DOMAIN s : s[i] = c})

rindex(s, c) == Max({i \in DOMAIN s : s[i] = c})

\* lines 551-552: cut from the first "(" to the last ")"
strip_paren(s) ==
    IF /\ \E i \in DOMAIN s : s[i] = "("
       /\ \E j \in DOMAIN s : j > index(s, "(") /\ s[j] = ")"
    THEN SubSeq(s, 1, index(s, "(") - 1) \o SubSeq(s, rindex(s, ")") + 1, Len(s))
    ELSE s

\* s.split(' ')[0] and s.split(' ')[-1]
first_word(s) ==
    IF \E i \in DOMAIN s : s[i] = " " THEN SubSeq(s, 1, index(s, " ") - 1) ELSE s

last_word(s) ==
    IF \E i \in DOMAIN s : s[i] = " "
    THEN SubSeq(s, rindex(s, " ") + 1, Len(s))
    ELSE s

\* len(s.split(' '))
word_count(s) == 1 + Cardinality({i \in DOMAIN s : s[i] = " "})

\* best_effort_is_name on the characters of a string
is_name_chars(s0) ==
    LET s == strip_paren(s0)
        rejected == \E i \in DOMAIN s :
                        /\ ~(isalpha(s[i]) \/ s[i] \in {" ", "-", "'", "."})
                        /\ (s[i] \in Digit \/ s[i] = ",")
        capital(w) == \E i \in DOMAIN w : w[i] \in Upper \/ ~isalpha(w[i])
    IN /\ ~rejected
       /\ word_count(s) >= 2
       /\ (capital(first_word(s)) \/ capital(last_word(s)))

best_effort_is_name(alias) == is_name_chars(Chars(alias))

\* ------------------------------------------------------------ reconciliation

\* best_effort_alias that takes any alias of the entity, whatever the rule
best_effort_alias_backup(d, rule, id) ==
    d[id]

\* best_effort_alias: the values it can return; the rule is given as the set
\* of strings it accepts. The aliases are a set, whose iteration order the
\* program does not fix: the first alias that satisfies the rule can be any
\* that satisfies it, the backup any alias at all. {} stands for
\* StopIteration (an entity without aliases)
best_effort_alias(d, rule, id) ==
    LET names == d[id] \cap rule
    IN IF names # {} THEN names ELSE d[id]

\* what find_mutual_alias returns: None, one string or a set of strings
RetNone == [type |-> "NoneType", str |-> NoneStr, set |-> {}]

RetStr(s) == [type |-> "str", str |-> s, set |-> {}]

RetSet(S) == [type |-> "set", str |-> NoneStr, set |-> S]

\* find_mutual_alias that hands back the set of matches as it is
find_mutual_alias_set(d, acceptable_aliases, id, known_alias) ==
    LET found == IF (id = None) = (known_alias = NoneStr)
                 THEN [err |-> "ValueError", val |-> {}]
                 ELSE all_aliases_of(d, id, known_alias)
        matches == found.val \cap Range(acceptable_aliases)
    IN IF found.err # "ok" THEN [err |-> found.err, val |-> RetNone]
       ELSE IF matches = {} THEN [err |-> "ok", val |-> RetNone]
       ELSE [err |-> "ok", val |-> RetSet(matches)]

\* find_mutual_alias(acceptable_aliases, id=..., known_alias=...): exactly one
\* anchor must be given; the entity's aliases are intersected with the
\* acceptable ones; no match gives None, one match the alias itself, more
\* the set of them
find_mutual_alias(d, acceptable_aliases, id, known_alias) ==
    LET found == IF (id = None) = (known_alias = NoneStr)
                 THEN [err |-> "ValueError", val |-> {}]
                 ELSE all_aliases_of(d, id, known_alias)
        matches == found.val \cap Range(acceptable_aliases)
    IN IF found.err # "ok" THEN [err |-> found.err, val |-> RetNone]
       ELSE IF matches = {} THEN [err |-> "ok", val |-> RetNone]
       ELSE IF Cardinality(matches) = 1
       THEN [err |-> "ok", val |-> RetStr(CHOOSE m \in matches : TRUE)]
       ELSE [err |-> "ok", val |-> RetSet(matches)]

\* the alias strings best_effort_is_name accepts
NameLike == {a \in Aliases \cup DestAliases : best_effort_is_name(a)}

\* a destination alias group counted as matched only when the store knows
\* every alias of it
matched_group_all(d, group) == \A i \in DOMAIN group : group[i] \in all_aliases(d)

\* a destination alias group is matched when the store knows one of its aliases
matched_group(d, group) == \E i \in DOMAIN group : group[i] \in all_aliases(d)

\* the input IDs, none filtered out
unmatched_input_ids_all(input_ids, matched_dest_ids) == input_ids

\* the input IDs that are not the ID of a matched destination group
unmatched_input_ids(input_ids, matched_dest_ids) ==
    LET is_unmatched_id(id) == id \notin matched_dest_ids
    IN SelectSeq(input_ids, is_unmatched_id)

\* every sequence that picks, for each i, one element of options[i]
RECURSIVE Picks(_, _)
Picks(options, i) ==
    IF i > Len(options)
    THEN {<< >>}
    ELSE {<<x>> \o rest : x \in options[i], rest \in Picks(options, i + 1)}

\* get_unmatched_entities: its possible results
get_unmatched_entities(d, input_ids, dest_alias_lists) ==
    LET is_matched(g)   == matched_group(d, g)
        is_unmatched(g) == ~matched_group(d, g)
        matched_lists   == SelectSeq(dest_alias_lists, is_matched)
        unmatched_lists == SelectSeq(dest_alias_lists, is_unmatched)
        dest_names      == [i \in DOMAIN unmatched_lists |-> unmatched_lists[i][1]]
        matched_ids     == {id_together(d, matched_lists[i]) :
                                i \in DOMAIN matched_lists}
        unmatched_ids   == unmatched_input_ids(input_ids,
                                               {m.id : m \in matched_ids})
        options         == [i \in DOMAIN unmatched_ids |->
                                best_effort_alias(d, NameLike, unmatched_ids[i])]
        \* the input IDs best_effort_alias raises for: unknown, or no alias
        bad             == {i \in DOMAIN unmatched_ids :
                                \/ unmatched_ids[i] \notin DOMAIN d
                                \/ d[unmatched_ids[i]] = {}}
        fail(e)         == {[err |-> e, input |-> << >>, dest |-> << >>]}
    IN IF \E i \in DOMAIN unmatched_lists : Len(unmatched_lists[i]) = 0
       THEN fail("IndexError")
       ELSE IF \E m \in matched_ids : m.err # "ok"
            THEN fail("ValueError")
            ELSE IF bad # {}
                 THEN IF unmatched_ids[Min(bad)] \notin DOMAIN d
                      THEN fail("IdNotFoundException")
                      ELSE fail("StopIteration")
                 ELSE {[err |-> "ok", input |-> in, dest |-> dest_names] :
                           in \in Picks(options, 1)}

\* the loop of associate_unrecognized_entities over the matcher's pairs
RECURSIVE associate_loop(_, _, _)
associate_loop(st, matched, i) ==
    IF i > Len(matched)
    THEN Outcome("ok", st, None)
    ELSE LET r == add_together(st, <<matched[i][1], matched[i][2]>>, FALSE)
         IN IF r.err # "ok"
            THEN r
            ELSE associate_loop(StOf(r), matched, i + 1)

\* associate_unrecognized_entities that merges the first pair only
associate_unrecognized_entities_first(st, matched) ==
    associate_loop(st, IF matched = << >> THEN << >> ELSE <<matched[1]>>, 1)

\* associate_unrecognized_entities after the matcher has returned `matched`
\* (the items of its dict, in the dict's order)
associate_unrecognized_entities(st, matched) ==
    associate_loop(st, matched, 1)

\* ------------------------------------------------------------------ state

\* the value of `last` while no call is under observation
NoCall ==
    [op |-> "none", id |-> None, ids |-> << >>, alias |-> NoneStr,
     aliases |-> << >>, rule |-> {}, records |-> << >>, flag |-> FALSE, flag2 |-> FALSE,
     inplace |-> FALSE, err |-> "ok", val |-> None]

\* the value of `pend` while no reconciliation waits for its matcher; `start`
\* is the store as it was when the reconciliation was called
NoPend ==
    [waiting |-> FALSE, input |-> << >>, dest |-> << >>,
     start |-> Store(<< >>, BaseId)]

\* the threads that share the store
Threads == 1..MaxThreads

\* the value of calls[t] while thread t is in no call
NoThread ==
    [pc |-> "idle", op |-> "none", aliases |-> << >>, flag |-> FALSE,
     flag2 |-> FALSE, id |-> None]

\* the value of `gui` while no matcher element is shown. user and dest are the
\* constructor's arguments; left_all and right_all the two lists on display;
\* left_select and right_select the values of the two select boxes; data the
\* dict the element hands back, `set` once Done has been clicked
NoGui ==
    [shown |-> FALSE, user |-> << >>, dest |-> << >>, flip |-> FALSE,
     left_all |-> << >>, right_all |-> << >>,
     left_select |-> NoneStr, right_select |-> NoneStr,
     left_discards |-> {}, right_discards |-> {},
     pairs |-> << >>, set |-> FALSE, data |-> << >>]

cur == Store(dict, next_id)

\* the store is free for a call: no reconciliation holds it
Idle == last.op = "none" /\ ~pend.waiting

\* A call on the store. Every call changes the store as its operation says.
\* A behaviour observes at most one call, its last: the observed call is
\* written to `last` with the store it started from in `prev`.
Apply(op, id, aliases, records, flag, flag2, r, observe) ==
    /\ r.next_id <= BaseId + MaxEntities
    /\ dict' = r.dict
    /\ next_id' = r.next_id
    /\ IF observe
       THEN /\ last' = [NoCall EXCEPT !.op = op, !.id = id, !.aliases = aliases,
                                       !.records = records, !.flag = flag,
                                       !.flag2 = flag2, !.err = r.err,
                                       !.val = r.val]
            /\ prev' = cur
       ELSE UNCHANGED <<last, prev>>

\* A call of a method that only reads the store, under observation: its
\* arguments and its outcome are written to `last`, the store stays as it is.
Lookup(op, id, alias, aliases, rule, err, val) ==
    /\ last' = [NoCall EXCEPT !.op = op, !.id = id, !.alias = alias,
                              !.aliases = aliases, !.rule = rule,
                              !.err = err, !.val = val]
    /\ prev' = cur
    /\ UNCHANGED <<dict, next_id>>

Init ==
    /\ dict = << >>
    /\ next_id = BaseId
    /\ pend = NoPend
    /\ last = NoCall
    /\ prev = Store(<< >>, BaseId)
    /\ calls = [t \in Threads |-> NoThread]
    /\ overlap = FALSE
    /\ gui = NoGui

\* the IDs a caller may name: the assigned ones and one that is not
SomeIds == DOMAIN dict \cup {next_id}

\* tables of candidate values: up to MaxRows rows of 1..MaxLen columns
Tables == UNION {[1..r -> [1..c -> Aliases]] : r \in 0..MaxRows, c \in 1..MaxLen}

\* what a matcher can return: a dict, as the sequence of its items
Mappings ==
    {m \in SeqsUpTo(Aliases \X DestAliases, MaxRows) :
        \A i, j \in DOMAIN m : i # j => m[i][1] # m[j][1]}

AddAtId ==
    /\ Idle
    /\ \E id \in SomeIds, aliases \in SeqsUpTo(Aliases, MaxLen), observe \in BOOLEAN :
        Apply("add_at_id", id, aliases, << >>, FALSE, FALSE,
              add_at_id(cur, id, aliases), observe)
    /\ UNCHANGED <<pend, calls, overlap, gui>>

AddNewEntityStr ==
    /\ Idle
    /\ \E alias \in Aliases, observe \in BOOLEAN :
        Apply("add_new_entity_str", None, <<alias>>, << >>, FALSE, FALSE,
              add_new_entity_str(cur, alias), observe)
    /\ UNCHANGED <<pend, calls, overlap, gui>>

AddNewEntity ==
    /\ Idle
    /\ \E aliases \in SeqsUpTo(Aliases, MaxLen), hashable \in BOOLEAN,
          observe \in BOOLEAN :
        Apply("add_new_entity", None, aliases, << >>, hashable, FALSE,
              add_new_entity(cur, aliases, hashable), observe)
    /\ UNCHANGED <<pend, calls, overlap, gui>>

AddTogether ==
    /\ Idle
    /\ \E aliases \in SeqsUpTo(Aliases, MaxLen), allow_new \in BOOLEAN,
          observe \in BOOLEAN :
        Apply("add_together", None, aliases, << >>, allow_new, FALSE,
              add_together(cur, aliases, allow_new), observe)
    /\ UNCHANGED <<pend, calls, overlap, gui>>

AddBulk ==
    /\ Idle
    /\ \E records \in SeqsUpTo(SeqsUpTo(Aliases, MaxLen), MaxRows),
          allow_new \in BOOLEAN, observe \in BOOLEAN :
        Apply("add_bulk", None, << >>, records, allow_new, FALSE,
              add_bulk(cur, records, allow_new), observe)
    /\ UNCHANGED <<pend, calls, overlap, gui>>

IdOfDf ==
    /\ Idle
    /\ \E table \in Tables, expect_new \in BOOLEAN, collect_new \in BOOLEAN,
          observe \in BOOLEAN :
        Apply("id_of_df", None, << >>, table, expect_new, collect_new,
              id_of_df(cur, table, expect_new, collect_new), observe)
    /\ UNCHANGED <<pend, calls, overlap, gui>>

\* best_effort_alias(rule, id=id): all_aliases_of(id=id) may raise, then the
\* first alias the rule accepts is returned, or else the first alias; the
\* rule is any predicate on strings, given by the aliases it accepts
BestEffortAlias ==
    /\ Idle
    /\ \E id \in SomeIds, rule \in SUBSET Aliases :
        LET all_options == all_aliases_of(dict, id, NoneStr)
        IN IF all_options.err # "ok"
           THEN Lookup("best_effort_alias", id, NoneStr, << >>, rule,
                       all_options.err, NoneStr)
           ELSE IF best_effort_alias(dict, rule, id) = {}
           THEN Lookup("best_effort_alias", id, NoneStr, << >>, rule,
                       "StopIteration", NoneStr)
           ELSE \E v \in best_effort_alias(dict, rule, id) :
                    Lookup("best_effort_alias", id, NoneStr, << >>, rule,
                           "ok", v)
    /\ UNCHANGED <<pend, calls, overlap, gui>>

\* find_mutual_alias with each combination of anchors: an ID or none, a known
\* alias or none
FindMutualAlias ==
    /\ Idle
    /\ \E acceptable_aliases \in SeqsUpTo(Aliases, MaxLen),
          id \in SomeIds \cup {None}, known_alias \in Aliases \cup {NoneStr} :
        LET r == find_mutual_alias(dict, acceptable_aliases, id, known_alias)
        IN Lookup("find_mutual_alias", id, known_alias, acceptable_aliases, {},
                  r.err, r.val)
    /\ UNCHANGED <<pend, calls, overlap, gui>>

\* reindex_by_id on a frame with the default row keys, whose alias columns
\* are the table
ReindexById ==
    /\ Idle
    /\ \E table \in Tables, inplace \in BOOLEAN, expect_new \in BOOLEAN,
          collect_new \in BOOLEAN, observe \in BOOLEAN :
        LET r == reindex_by_id(cur, RangeIndex(Len(table)), table, inplace,
                               expect_new, collect_new)
        IN /\ r.next_id <= BaseId + MaxEntities
           /\ dict' = r.dict
           /\ next_id' = r.next_id
           /\ IF observe
              THEN /\ last' = [NoCall EXCEPT !.op = "reindex_by_id",
                                             !.records = table,
                                             !.inplace = inplace,
                                             !.flag = expect_new,
                                             !.flag2 = collect_new,
                                             !.err = r.err, !.val = r.val]
                   /\ prev' = cur
              ELSE UNCHANGED <<last, prev>>
    /\ UNCHANGED <<pend, calls, overlap, gui>>

\* get_unmatched_entities called on its own
GetUnmatchedEntities ==
    /\ Idle
    /\ \E input_ids \in {s \in SeqsUpTo(SomeIds, MaxRows) : Distinct(s)},
          dest_alias_lists \in SeqsUpTo(SeqsUpTo(DestAliases, MaxLen), MaxRows) :
        \E u \in get_unmatched_entities(dict, input_ids, dest_alias_lists) :
            /\ last' = [NoCall EXCEPT !.op = "get_unmatched_entities",
                                      !.ids = input_ids,
                                      !.records = dest_alias_lists,
                                      !.err = u.err,
                                      !.val = [input |-> u.input, dest |-> u.dest]]
            /\ prev' = cur
            /\ UNCHANGED <<dict, next_id>>
    /\ UNCHANGED <<pend, calls, overlap, gui>>

\* a reconciliation that creates an entity for the unmatched labels before it
\* asks the matcher
ReconcileStartEager ==
    /\ Idle
    /\ \E input_ids \in {s \in SeqsUpTo(SomeIds, MaxRows) : Distinct(s)},
          dest_alias_lists \in SeqsUpTo(SeqsUpTo(DestAliases, MaxLen), MaxRows) :
        \E u \in get_unmatched_entities(dict, input_ids, dest_alias_lists) :
            /\ u.err = "ok"
            /\ new_id(cur).st.next_id <= BaseId + MaxEntities
            /\ pend' = [waiting |-> TRUE, input |-> u.input, dest |-> u.dest,
                        start |-> cur]
            /\ dict' = new_id(cur).st.dict
            /\ next_id' = new_id(cur).st.next_id
            /\ UNCHANGED <<last, prev, calls, overlap, gui>>

\* associate_unrecognized_entities up to its call of the matcher: the
\* unmatched labels are computed and handed to the matcher, or computing them
\* fails and the call ends
ReconcileStart ==
    /\ Idle
    /\ \E input_ids \in {s \in SeqsUpTo(SomeIds, MaxRows) : Distinct(s)},
          dest_alias_lists \in SeqsUpTo(SeqsUpTo(DestAliases, MaxLen), MaxRows) :
        \E u \in get_unmatched_entities(dict, input_ids, dest_alias_lists) :
            IF u.err = "ok"
            THEN /\ pend' = [waiting |-> TRUE, input |-> u.input, dest |-> u.dest,
                             start |-> cur]
                 /\ UNCHANGED <<dict, next_id, last, prev>>
            ELSE /\ \E observe \in BOOLEAN :
                        Apply("reconcile", None, << >>, dest_alias_lists, FALSE,
                              FALSE, Outcome(u.err, cur, input_ids), observe)
                 /\ UNCHANGED pend
    /\ UNCHANGED <<calls, overlap, gui>>

\* the matcher returns a dict and associate_unrecognized_entities merges its
\* pairs, one add_together per pair
MatcherReturn ==
    /\ pend.waiting
    /\ \E matched \in Mappings, observe \in BOOLEAN :
        Apply("reconcile", None, << >>, matched, TRUE, FALSE,
              associate_unrecognized_entities(cur, matched), observe)
    /\ pend' = IF last'.op = "none" THEN NoPend ELSE [pend EXCEPT !.waiting = FALSE]
    /\ UNCHANGED <<calls, overlap, gui>>

\* the matcher raises, or the host cancels the task that awaits it
MatcherRaise ==
    /\ pend.waiting
    /\ \E observe \in BOOLEAN :
        Apply("reconcile", None, << >>, << >>, TRUE, FALSE,
              Outcome("MatcherRaised", cur, None), observe)
    /\ pend' = IF last'.op = "none" THEN NoPend ELSE [pend EXCEPT !.waiting = FALSE]
    /\ UNCHANGED <<calls, overlap, gui>>

\* --------------------------------------------------------- read-only calls

RetInt(i) == [type |-> "int", int |-> i]

RetBool(b) == [type |-> "bool", bool |-> b]

\* id_of(alias) for one string
IdOf ==
    /\ Idle
    /\ \E alias \in Aliases :
        LET id == id_of(dict, alias)
        IN Lookup("id_of", None, alias, << >>, {},
                  IF id = None THEN "AliasNotFoundException" ELSE "ok",
                  RetInt(id))
    /\ UNCHANGED <<pend, calls, overlap, gui>>

\* id_together(aliases)
IdTogether ==
    /\ Idle
    /\ \E aliases \in SeqsUpTo(Aliases, MaxLen) :
        LET r == id_together(dict, aliases)
        IN Lookup("id_together", None, NoneStr, aliases, {}, r.err, RetInt(r.id))
    /\ UNCHANGED <<pend, calls, overlap, gui>>

\* all_aliases_of(id=..., alias=...)
AllAliasesOf ==
    /\ Idle
    /\ \E id \in SomeIds \cup {None}, alias \in Aliases \cup {NoneStr} :
        LET r == all_aliases_of(dict, id, alias)
        IN Lookup("all_aliases_of", id, alias, << >>, {}, r.err, RetSet(r.val))
    /\ UNCHANGED <<pend, calls, overlap, gui>>

\* `item in alias_record`, for an ID and for a string: an ID is looked up in
\* the keys of _dict (and is no alias), a string in all_aliases (and is no key)
Contains ==
    /\ Idle
    /\ \/ \E id \in SomeIds :
            Lookup("__contains__", id, NoneStr, << >>, {}, "ok",
                   RetBool(id \in DOMAIN dict))
       \/ \E alias \in Aliases :
            Lookup("__contains__", None, alias, << >>, {}, "ok",
                   RetBool(contains(dict, alias)))
    /\ UNCHANGED <<pend, calls, overlap, gui>>

Next ==
    \/ AddAtId
    \/ AddNewEntityStr
    \/ AddNewEntity
    \/ AddTogether
    \/ AddBulk
    \/ IdOfDf
    \/ ReconcileStart
    \/ MatcherReturn
    \/ MatcherRaise
    \/ BestEffortAlias
    \/ FindMutualAlias
    \/ ReindexById
    \/ GetUnmatchedEntities
    \/ IdOf
    \/ IdTogether
    \/ AllAliasesOf
    \/ Contains

Spec == Init /\ [][Next]_vars

\* the registry's own add and merge operations, without the bulk, table and
\* reconciliation layers built on them; they reach every store Spec reaches
NextCore ==
    \/ AddAtId
    \/ AddNewEntityStr
    \/ AddNewEntity
    \/ AddTogether

SpecCore == Init /\ [][NextCore]_vars

\* ------------------------------------------------- best_effort_is_name calls

\* the characters of the strings tried: a capital, a small letter, the word
\* separator, a digit, the comma, the apostrophe and the two parentheses
NameChars == {"N", "a", " ", "1", ",", "'", "(", ")"}

\* best_effort_is_name(s) on any string of these characters; the characters
\* of s are recorded in last.aliases
BestEffortIsName ==
    /\ Idle
    /\ \E s \in SeqsUpTo(NameChars, MaxChars) :
        Lookup("best_effort_is_name", None, NoneStr, s, {}, "ok",
               RetBool(is_name_chars(s)))
    /\ UNCHANGED <<pend, calls, overlap, gui>>

NextName == BestEffortIsName

SpecName == Init /\ [][NextName]_vars

\* ------------------------------------------------- StudentAliasMatchElement

\* DualListMatch.left_remaining / right_remaining: the items of a list that
\* are neither discarded nor in a pair
remaining(all, discards, paired) ==
    LET is_left(x) == x \notin discards \cup paired
    IN SelectSeq(all, is_left)

left_remaining ==
    remaining(gui.left_all, gui.left_discards,
              {gui.pairs[i][1] : i \in DOMAIN gui.pairs})

right_remaining ==
    remaining(gui.right_all, gui.right_discards,
              {gui.pairs[i][2] : i \in DOMAIN gui.pairs})

\* the position of a label in Python's str order (by code point: upper case
\* before lower case)
str_order(alias) ==
    CASE alias = "Name One (copy 1)" -> 1
      [] alias = "Name Two" -> 2
      [] alias = "name1" -> 3
      [] alias = "student@mail.com" -> 4

\* sorted(labels): ascending, duplicates kept
RECURSIVE sorted(_)
sorted(labels) ==
    IF labels = << >> THEN << >>
    ELSE LET least == Min({str_order(labels[i]) : i \in DOMAIN labels})
             at == CHOOSE i \in DOMAIN labels : str_order(labels[i]) = least
         IN <<labels[at]>> \o
            sorted(SubSeq(labels, 1, at - 1) \o SubSeq(labels, at + 1, Len(labels)))

\* _pairs_to_dict that builds the dict from the pairs as displayed
pairs_to_dict_asis(pairs, flip) ==
    LET key(i) == pairs[i][1]
        val(i) == pairs[i][2]
    IN [k \in {key(i) : i \in DOMAIN pairs} |->
            val(Max({i \in DOMAIN pairs : key(i) = k}))]

\* _pairs_to_dict(pairs, flip): dict() of the pairs, each pair turned round
\* first when the lists were swapped for display; a later pair with the same
\* key replaces an earlier one
pairs_to_dict(pairs, flip) ==
    LET key(i) == IF flip THEN pairs[i][2] ELSE pairs[i][1]
        val(i) == IF flip THEN pairs[i][1] ELSE pairs[i][2]
    IN [k \in {key(i) : i \in DOMAIN pairs} |->
            val(Max({i \in DOMAIN pairs : key(i) = k}))]

\* StudentAliasMatchElement(user, dest): the longer list goes to the right
MatchOpen ==
    /\ ~gui.shown
    /\ \E user \in SeqsUpTo(Aliases, MaxRows), dest \in SeqsUpTo(DestAliases, MaxRows) :
        LET flip == Len(user) > Len(dest)
        IN gui' = [NoGui EXCEPT !.shown = TRUE, !.user = user, !.dest = dest,
                                !.flip = flip,
                                !.left_all = sorted(IF flip THEN dest ELSE user),
                                !.right_all = sorted(IF flip THEN user ELSE dest)]
    /\ UNCHANGED <<dict, next_id, pend, last, prev, calls, overlap>>

\* the user picks an option of the left select box, or clears it
SelectLeft ==
    /\ gui.shown
    /\ \E value \in Range(left_remaining) \cup {NoneStr} :
        gui' = [gui EXCEPT !.left_select = value]
    /\ UNCHANGED <<dict, next_id, pend, last, prev, calls, overlap>>

SelectRight ==
    /\ gui.shown
    /\ \E value \in Range(right_remaining) \cup {NoneStr} :
        gui' = [gui EXCEPT !.right_select = value]
    /\ UNCHANGED <<dict, next_id, pend, last, prev, calls, overlap>>

\* handle_add_match_button; the button is enabled while both boxes hold a
\* value
AddMatch ==
    /\ gui.shown
    /\ gui.left_select # NoneStr
    /\ gui.right_select # NoneStr
    /\ gui' = [gui EXCEPT !.pairs = Append(@, <<gui.left_select, gui.right_select>>),
                          !.left_select = NoneStr, !.right_select = NoneStr]
    /\ UNCHANGED <<dict, next_id, pend, last, prev, calls, overlap>>

\* handle_match_undo: the pair goes back to the lists
MatchUndo ==
    /\ gui.shown
    /\ \E i \in DOMAIN gui.pairs :
        gui' = [gui EXCEPT !.pairs = SubSeq(@, 1, i - 1) \o SubSeq(@, i + 1, Len(@))]
    /\ UNCHANGED <<dict, next_id, pend, last, prev, calls, overlap>>

\* handle_child_discard_button on an option of the left or the right box
Discard ==
    /\ gui.shown
    /\ \/ \E value \in Range(left_remaining) :
            gui' = [gui EXCEPT !.left_select = NoneStr,
                               !.left_discards = @ \cup {value}]
       \/ \E value \in Range(right_remaining) :
            gui' = [gui EXCEPT !.right_select = NoneStr,
                               !.right_discards = @ \cup {value}]
    /\ UNCHANGED <<dict, next_id, pend, last, prev, calls, overlap>>

\* handle_discard_undo
DiscardUndo ==
    /\ gui.shown
    /\ \/ \E value \in gui.left_discards :
            gui' = [gui EXCEPT !.left_discards = @ \ {value}]
       \/ \E value \in gui.right_discards :
            gui' = [gui EXCEPT !.right_discards = @ \ {value}]
    /\ UNCHANGED <<dict, next_id, pend, last, prev, calls, overlap>>

\* handle_done_button; the button is enabled while there is a pair
Done ==
    /\ gui.shown
    /\ Len(gui.pairs) > 0
    /\ gui' = [gui EXCEPT !.set = TRUE,
                          !.data = pairs_to_dict(gui.pairs, gui.flip)]
    /\ UNCHANGED <<dict, next_id, pend, last, prev, calls, overlap>>

NextMatch ==
    \/ MatchOpen
    \/ SelectLeft
    \/ SelectRight
    \/ AddMatch
    \/ MatchUndo
    \/ Discard
    \/ DiscardUndo
    \/ Done

SpecMatch == Init /\ [][NextMatch]_vars

\* ---------------------------------------------- calls from several threads
\* The store has no lock. A call of add_together, or of id_of_df on a table of
\* one row, made by a thread runs in the steps below; between two steps of one
\* thread the other threads may take steps of theirs. Each call names one
\* alias.

\* thread t starts add_together([alias], allow_new)
ThreadAddTogether(t) ==
    /\ calls[t].pc = "idle"
    /\ \E alias \in Aliases, allow_new \in BOOLEAN :
        calls' = [calls EXCEPT ![t] =
                    [NoThread EXCEPT !.pc = "lookup", !.op = "add_together",
                                     !.aliases = <<alias>>, !.flag = allow_new,
                                     !.flag2 = TRUE]]
    /\ overlap' = (overlap \/ \E o \in Threads \ {t} : calls[o].pc # "idle")
    /\ UNCHANGED <<dict, next_id, pend, last, prev, gui>>

\* thread t starts id_of_df on the one row (alias)
ThreadIdOfDf(t) ==
    /\ calls[t].pc = "idle"
    /\ \E alias \in Aliases, expect_new \in BOOLEAN, collect_new \in BOOLEAN :
        calls' = [calls EXCEPT ![t] =
                    [NoThread EXCEPT !.pc = "lookup", !.op = "id_of_df",
                                     !.aliases = <<alias>>, !.flag = expect_new,
                                     !.flag2 = collect_new]]
    /\ overlap' = (overlap \/ \E o \in Threads \ {t} : calls[o].pc # "idle")
    /\ UNCHANGED <<dict, next_id, pend, last, prev, gui>>

\* the lookup of the call: id_together in add_together, the scan of the row in
\* id_of_df. A known alias gives the ID to add to; an unknown one leads to
\* _new_id when flag (allow_new, expect_new_entities) is on and ends the call
\* with AliasNotFoundException otherwise
ThreadLookup(t) ==
    /\ calls[t].pc = "lookup"
    /\ LET c     == calls[t]
           found == IF c.op = "add_together"
                    THEN id_together(dict, c.aliases).id
                    ELSE first_known(dict, c.aliases, 1)
       IN calls' = [calls EXCEPT ![t] =
                      IF found # None
                      THEN IF c.flag2
                           THEN [c EXCEPT !.pc = "check", !.id = found]
                           ELSE NoThread
                      ELSE IF c.flag
                           THEN [c EXCEPT !.pc = "new_id"]
                           ELSE NoThread]
    /\ UNCHANGED <<dict, next_id, pend, last, prev, overlap, gui>>

\* _new_id; add_at_id follows, except in id_of_df without collect_new_aliases
ThreadNewId(t) ==
    /\ calls[t].pc = "new_id"
    /\ new_id(cur).st.next_id <= BaseId + MaxEntities
    /\ dict' = new_id(cur).st.dict
    /\ next_id' = new_id(cur).st.next_id
    /\ calls' = [calls EXCEPT ![t] =
                    IF calls[t].flag2
                    THEN [calls[t] EXCEPT !.pc = "check", !.id = new_id(cur).val]
                    ELSE NoThread]
    /\ UNCHANGED <<pend, last, prev, overlap, gui>>

\* the loop of add_at_id that looks for an alias owned by another entity; it
\* raises ValueError or leaves the call before its update
ThreadCheck(t) ==
    /\ calls[t].pc = "check"
    /\ calls' = [calls EXCEPT ![t] =
                    IF add_at_id(cur, calls[t].id, calls[t].aliases).err = "ok"
                    THEN [calls[t] EXCEPT !.pc = "update"]
                    ELSE NoThread]
    /\ UNCHANGED <<dict, next_id, pend, last, prev, overlap, gui>>

\* self._dict[id].update(aliases), the last statement of add_at_id
ThreadUpdate(t) ==
    /\ calls[t].pc = "update"
    /\ dict' = [dict EXCEPT ![calls[t].id] = @ \cup Range(calls[t].aliases)]
    /\ calls' = [calls EXCEPT ![t] = NoThread]
    /\ UNCHANGED <<next_id, pend, last, prev, overlap, gui>>

NextThreads ==
    \E t \in Threads :
        \/ ThreadAddTogether(t)
        \/ ThreadIdOfDf(t)
        \/ ThreadLookup(t)
        \/ ThreadNewId(t)
        \/ ThreadCheck(t)
        \/ ThreadUpdate(t)

SpecThreads == Init /\ [][NextThreads]_vars

\* the add and merge operations with the lookups that select aliases
NextLookup ==
    \/ AddAtId
    \/ AddNewEntityStr
    \/ AddNewEntity
    \/ AddTogether
    \/ BestEffortAlias
    \/ FindMutualAlias

SpecLookup == Init /\ [][NextLookup]_vars

\* the add and merge operations with the reconciliation
NextRec ==
    \/ AddAtId
    \/ AddNewEntityStr
    \/ AddNewEntity
    \/ AddTogether
    \/ GetUnmatchedEntities
    \/ ReconcileStart
    \/ MatcherReturn
    \/ MatcherRaise

SpecRec == Init /\ [][NextRec]_vars

\* the add and merge operations with the table binding
NextDf ==
    \/ AddAtId
    \/ AddNewEntityStr
    \/ AddNewEntity
    \/ AddTogether
    \/ IdOfDf
    \/ ReindexById

SpecDf == Init /\ [][NextDf]_vars

\* the add and merge operations with the operations that only look things up
NextRead ==
    \/ AddAtId
    \/ AddNewEntityStr
    \/ AddNewEntity
    \/ AddTogether
    \/ IdOf
    \/ IdTogether
    \/ AllAliasesOf
    \/ Contains
    \/ BestEffortAlias
    \/ FindMutualAlias
    \/ GetUnmatchedEntities
    \/ IdOfDf

SpecRead == Init /\ [][NextRead]_vars

\* ------------------------------------------------------------------ claims

\* the aliases of a collection that the store d knows, and their entities
Registered(d, aliases) == {a \in Range(aliases) : \E e \in DOMAIN d : a \in d[e]}

OwnersOf(d, aliases) == {e \in DOMAIN d : d[e] \cap Range(aliases) # {}}

\* the observed call left the store as it found it
StoreUntouched == dict = prev.dict /\ next_id = prev.next_id

\* the entities other than e are as they were before the observed call
OthersAsBefore(e) == \A o \in DOMAIN prev.dict \ {e} : dict[o] = prev.dict[o]

\* C1: uniqueness invariant. In every reachable state, whatever calls
\* succeeded or failed, no alias is in the alias sets of two distinct
\* entity IDs.
C1_Uniqueness ==
    \A e1, e2 \in DOMAIN dict : e1 # e2 => dict[e1] \cap dict[e2] = {}

\* an attempt to bind a registered alias to a second entity has been refused
\* and both entities are still there with their aliases
C1_Witness ==
    /\ last.op = "add_at_id"
    /\ last.err = "ValueError"
    /\ \E e \in DOMAIN dict \ {last.id} :
            dict[e] \cap Range(last.aliases) # {} /\ dict[last.id] # {}

\* C2: monotonic IDs. The assigned IDs are always exactly 400 .. next_id - 1,
\* and a call neither removes an ID nor lowers next_id, so the n-th entity
\* created has ID 400 + n - 1.
C2_MonotonicIds ==
    /\ DOMAIN dict = BaseId .. (next_id - 1)
    /\ last.op # "none" =>
            /\ DOMAIN prev.dict = BaseId .. (prev.next_id - 1)
            /\ prev.next_id <= next_id

\* the third entity has been created, by add_together, as ID 402
C2_Witness ==
    /\ last.op = "add_together"
    /\ last.err = "ok"
    /\ prev.next_id = BaseId + 2
    /\ next_id = BaseId + 3
    /\ DOMAIN dict = {BaseId, BaseId + 1, BaseId + 2}

\* C3: conflict detection. add_together on aliases of which two are
\* registered to two different entities fails with ValueError (conflicting
\* IDs), for either value of allow_new, and leaves the store as it was.
C3_ConflictDetection ==
    (/\ last.op = "add_together"
     /\ Cardinality(OwnersOf(prev.dict, last.aliases)) >= 2)
    => /\ last.err = "ValueError"
       /\ StoreUntouched

C3_Witness ==
    /\ last.op = "add_together"
    /\ last.flag
    /\ Cardinality(OwnersOf(prev.dict, last.aliases)) >= 2
    /\ last.err = "ValueError"

\* C4: merge into an existing entity. When at least one given alias is
\* registered and all registered ones belong to one entity E, add_together
\* succeeds, creates no entity, every given alias resolves to E, E keeps its
\* previous aliases and every other entity's alias set is unchanged.
C4_MergeIntoExisting ==
    (/\ last.op = "add_together"
     /\ Cardinality(OwnersOf(prev.dict, last.aliases)) = 1)
    => LET E == CHOOSE e \in OwnersOf(prev.dict, last.aliases) : TRUE
       IN /\ last.err = "ok"
          /\ next_id = prev.next_id
          /\ DOMAIN dict = DOMAIN prev.dict
          /\ \A a \in Range(last.aliases) : id_of(dict, a) = E
          /\ prev.dict[E] \subseteq dict[E]
          /\ OthersAsBefore(E)

\* a known and an unknown alias were given, and the unknown one joined
C4_Witness ==
    /\ last.op = "add_together"
    /\ last.err = "ok"
    /\ Cardinality(OwnersOf(prev.dict, last.aliases)) = 1
    /\ Range(last.aliases) \ all_aliases(prev.dict) # {}
    /\ Cardinality(DOMAIN prev.dict) >= 2

\* C5: merge creating an entity. When none of the given aliases is
\* registered and allow_new is true, add_together creates exactly one entity,
\* with the next ID, whose alias set is exactly the given aliases; all of
\* them resolve to that ID.
C5_MergeCreatesEntity ==
    (/\ last.op = "add_together"
     /\ last.flag
     /\ Registered(prev.dict, last.aliases) = {})
    => /\ last.err = "ok"
       /\ next_id = prev.next_id + 1
       /\ DOMAIN dict = DOMAIN prev.dict \cup {prev.next_id}
       /\ dict[prev.next_id] = Range(last.aliases)
       /\ \A a \in Range(last.aliases) : id_of(dict, a) = prev.next_id
       /\ \A o \in DOMAIN prev.dict : dict[o] = prev.dict[o]

\* two unknown aliases were merged into a new entity next to an older one
C5_Witness ==
    /\ last.op = "add_together"
    /\ last.flag
    /\ last.err = "ok"
    /\ Cardinality(Range(last.aliases)) = 2
    /\ Registered(prev.dict, last.aliases) = {}
    /\ all_aliases(prev.dict) # {}

\* C6: when none of the given aliases is registered and allow_new is false,
\* add_together fails with AliasNotFoundException and the store is unchanged:
\* no entity is created and no ID is consumed.
C6_NoMatchNoNew ==
    (/\ last.op = "add_together"
     /\ ~last.flag
     /\ Registered(prev.dict, last.aliases) = {})
    => /\ last.err = "AliasNotFoundException"
       /\ StoreUntouched

C6_Witness ==
    /\ last.op = "add_together"
    /\ ~last.flag
    /\ last.aliases # << >>
    /\ Registered(prev.dict, last.aliases) = {}
    /\ all_aliases(prev.dict) # {}
    /\ last.err = "AliasNotFoundException"

\* C7: merge idempotence. After a successful add_at_id(id, aliases) the same
\* call made again does not fail and leaves the store exactly as the first
\* call left it.
C7_AddIdempotent ==
    (last.op = "add_at_id" /\ last.err = "ok")
    => LET again == add_at_id(cur, last.id, last.aliases)
       IN /\ again.err = "ok"
          /\ again.dict = dict
          /\ again.next_id = next_id

\* a single alias that was new to the store has been added to an entity
C7_Witness ==
    /\ last.op = "add_at_id"
    /\ last.err = "ok"
    /\ Len(last.aliases) = 1
    /\ last.aliases[1] \notin all_aliases(prev.dict)
    /\ last.aliases[1] \in dict[last.id]

\* C8: add_at_id given aliases of which one is registered to a different
\* entity fails with ValueError and adds none of them, the unregistered ones
\* listed before the conflicting one included; the store is unchanged.
C8_AddAtIdAllOrNothing ==
    (/\ last.op = "add_at_id"
     /\ last.id \in DOMAIN prev.dict
     /\ OwnersOf(prev.dict, last.aliases) \ {last.id} # {})
    => /\ last.err = "ValueError"
       /\ StoreUntouched

\* an unregistered alias was listed before the conflicting one
C8_Witness ==
    /\ last.op = "add_at_id"
    /\ last.err = "ValueError"
    /\ Len(last.aliases) >= 2
    /\ last.aliases[1] \notin all_aliases(prev.dict)
    /\ \E e \in DOMAIN prev.dict \ {last.id} : last.aliases[2] \in prev.dict[e]

\* the case of C9 and of its amended form: add_new_entity called with a
\* tuple of k >= 2 distinct aliases, none of them registered
C9_Case ==
    /\ last.op = "add_new_entity"
    /\ last.flag
    /\ Len(last.aliases) >= 2
    /\ Distinct(last.aliases)
    /\ Registered(prev.dict, last.aliases) = {}

\* C9 as stated: add_new_entity with k >= 2 unregistered aliases creates
\* exactly one entity whose alias set is exactly those k aliases.
C9_OneEntityForAll ==
    C9_Case
    => /\ last.err = "ok"
       /\ next_id = prev.next_id + 1
       /\ dict[prev.next_id] = Range(last.aliases)

\* C9 amended: add_new_entity with a tuple of k >= 2 distinct unregistered
\* aliases creates k entities with consecutive IDs, the i-th holding exactly
\* the i-th alias, and leaves the older entities as they were.
C9_OneEntityPerAlias ==
    C9_Case
    => /\ last.err = "ok"
       /\ next_id = prev.next_id + Len(last.aliases)
       /\ DOMAIN dict = DOMAIN prev.dict \cup (prev.next_id .. (next_id - 1))
       /\ \A i \in DOMAIN last.aliases :
                dict[prev.next_id + i - 1] = {last.aliases[i]}
       /\ \A o \in DOMAIN prev.dict : dict[o] = prev.dict[o]

C9_Witness ==
    /\ C9_Case
    /\ last.err = "ok"
    /\ DOMAIN prev.dict # {}

\* C10 as stated: add_new_entity fails with ValueError (alias already
\* exists) if any given alias is already registered, and the failure leaves
\* the store in its prior state: no entity created, no ID consumed.
C10_NewEntityAtomic ==
    (/\ last.op \in {"add_new_entity", "add_new_entity_str"}
     /\ (last.op = "add_new_entity" => last.flag)
     /\ Registered(prev.dict, last.aliases) # {})
    => /\ last.err = "ValueError"
       /\ StoreUntouched

\* C11: round trip. After a successful add_new_entity(x), id_of(x) is the ID
\* just created and all_aliases_of(id) holds x; and after every successful
\* add_new_entity, add_at_id or add_together, for every alias a and every
\* entity e, id_of(a) = e exactly when a is in all_aliases_of(e).
C11_RoundTrip ==
    /\ (last.op = "add_new_entity_str" /\ last.err = "ok") =>
            /\ id_of(dict, last.aliases[1]) = prev.next_id
            /\ all_aliases_of(dict, prev.next_id, NoneStr).err = "ok"
            /\ last.aliases[1] \in all_aliases_of(dict, prev.next_id, NoneStr).val
    /\ (last.op \in {"add_new_entity_str", "add_at_id", "add_together"}
            /\ last.err = "ok") =>
            \A a \in Aliases, e \in DOMAIN dict :
                (id_of(dict, a) = e) <=> (a \in all_aliases_of(dict, e, NoneStr).val)

\* add_at_id has given a new alias to the second of two entities, and the
\* alias now resolves to that entity
C11_Witness ==
    /\ last.op = "add_at_id"
    /\ last.err = "ok"
    /\ last.id = BaseId + 1
    /\ dict[BaseId] # {}
    /\ \E a \in Range(last.aliases) :
            a \notin all_aliases(prev.dict) /\ id_of(dict, a) = BaseId + 1

\* C12: no entity without aliases. In every reachable state every entity ID
\* of the store has at least one alias (also after add_together of an empty
\* collection with allow_new, and after id_of_df with expect_new_entities and
\* without collect_new_aliases), so best_effort_alias has a value to return
\* for every assigned ID, whatever the rule.
C12_NoEmptyEntity ==
    \A e \in DOMAIN dict :
        /\ dict[e] # {}
        /\ \A rule \in SUBSET Aliases : best_effort_alias(dict, rule, e) # {}

\* C13: best-effort alias. best_effort_alias(rule, id) on an entity with a
\* non-empty alias set returns one of the entity's aliases; the alias
\* returned satisfies the rule whenever some alias of the entity does; and
\* the call leaves the store as it was.
C13_BestEffortAlias ==
    (last.op = "best_effort_alias" /\ last.id \in DOMAIN prev.dict) =>
        /\ StoreUntouched
        /\ prev.dict[last.id] # {} =>
                /\ last.err = "ok"
                /\ last.val \in prev.dict[last.id]
                /\ (prev.dict[last.id] \cap last.rule # {}) =>
                        last.val \in last.rule

\* an entity has an alias the rule accepts and one it rejects, and the call
\* returned the accepted one
C13_Witness ==
    /\ last.op = "best_effort_alias"
    /\ last.err = "ok"
    /\ last.id \in DOMAIN dict
    /\ dict[last.id] \ last.rule # {}
    /\ dict[last.id] \cap last.rule # {}
    /\ last.val \in last.rule

\* C14: mutual alias. find_mutual_alias intersects the anchored entity's
\* aliases with the acceptable ones and returns None when nothing matches,
\* the alias itself when exactly one matches, and the whole set of matches
\* when two or more do; the anchor given as the entity's ID or as any alias
\* of the entity gives the same result; a call with both anchors or with
\* neither fails with ValueError.
C14_MutualAlias ==
    last.op = "find_mutual_alias" =>
        LET e == IF last.alias = NoneStr THEN last.id
                 ELSE id_of(prev.dict, last.alias)
            matches == prev.dict[e] \cap Range(last.aliases)
        IN /\ ((last.id = None) = (last.alias = NoneStr)) =>
                    last.err = "ValueError"
           /\ ((last.id = None) # (last.alias = NoneStr) /\ e \in DOMAIN prev.dict) =>
                    /\ last.err = "ok"
                    /\ matches = {} => last.val = RetNone
                    /\ Cardinality(matches) = 1 =>
                            last.val.type = "str" /\ matches = {last.val.str}
                    /\ Cardinality(matches) >= 2 => last.val = RetSet(matches)
                    /\ find_mutual_alias(prev.dict, last.aliases, e, NoneStr)
                            = [err |-> "ok", val |-> last.val]
                    /\ \A a \in prev.dict[e] :
                            find_mutual_alias(prev.dict, last.aliases, None, a)
                                = [err |-> "ok", val |-> last.val]

\* an entity anchored by one of its aliases has two acceptable aliases, and
\* the call returned the set of both
C14_Witness ==
    /\ last.op = "find_mutual_alias"
    /\ last.err = "ok"
    /\ last.id = None
    /\ last.alias \in all_aliases(dict)
    /\ last.val.type = "set"
    /\ Cardinality(last.val.set) = 2
    /\ last.val.set \subseteq dict[id_of(dict, last.alias)]

\* the observed id_of_df call: its outcome on the first n rows of its table
DfUpTo(n) == id_of_df(prev, SubSeq(last.records, 1, n), last.flag, last.flag2)

\* row i of the observed id_of_df call is processed: the rows before it passed
DfProcessed(i) == DfUpTo(i - 1).err = "ok"

\* the columns of row i whose value is registered when row i is processed
DfHits(i) ==
    {j \in DOMAIN last.records[i] :
        last.records[i][j] \in all_aliases(DfUpTo(i - 1).dict)}

\* the entity of the first registered candidate value of row i
DfFirstHit(i) == id_of(DfUpTo(i - 1).dict, last.records[i][Min(DfHits(i))])

\* a candidate value of row i is registered to another entity than the
\* first registered one
DfConflict(i) ==
    \E j \in DfHits(i) :
        id_of(DfUpTo(i - 1).dict, last.records[i][j]) # DfFirstHit(i)

\* C15: table binding priority. id_of_df resolves every row it processes to
\* the entity of the first candidate value, in column order, that is
\* registered when the row is processed, whatever the later columns hold,
\* also when a later candidate value of the row is registered to another
\* entity, and for both values of collect_new_aliases.
C15_FirstHitWins ==
    last.op = "id_of_df" =>
        \A i \in DOMAIN last.records :
            (DfProcessed(i) /\ DfHits(i) # {}) =>
                /\ Len(last.val) >= i
                /\ last.val[i] = DfFirstHit(i)

\* C15 as the code has it: the first registered candidate value wins when
\* collect_new_aliases is off or no candidate value of the row is registered
\* to another entity; with collect_new_aliases on and such a candidate value
\* in the row, the call stops at that row with ValueError.
C15_FirstHitUnlessConflict ==
    last.op = "id_of_df" =>
        \A i \in DOMAIN last.records :
            (DfProcessed(i) /\ DfHits(i) # {}) =>
                IF last.flag2 /\ DfConflict(i)
                THEN /\ last.err = "ValueError"
                     /\ Len(last.val) = i - 1
                ELSE /\ Len(last.val) >= i
                     /\ last.val[i] = DfFirstHit(i)

\* without collecting, a row whose first value belongs to one entity and whose
\* second value belongs to another has been resolved to the first one
C15_Witness ==
    /\ last.op = "id_of_df"
    /\ last.err = "ok"
    /\ ~last.flag2
    /\ \E i \in DOMAIN last.records :
            /\ Len(last.records[i]) = 2
            /\ DfHits(i) = {1, 2}
            /\ DfConflict(i)
            /\ last.val[i] = id_of(prev.dict, last.records[i][1])

\* C16: alias collection. After id_of_df has succeeded with
\* collect_new_aliases on, every candidate value of every row is registered
\* as an alias of the ID derived for that row.
C16_AliasCollection ==
    (last.op = "id_of_df" /\ last.flag2 /\ last.err = "ok") =>
        /\ Len(last.val) = Len(last.records)
        /\ \A i \in DOMAIN last.records : \A j \in DOMAIN last.records[i] :
                /\ last.val[i] \in DOMAIN dict
                /\ last.records[i][j] \in dict[last.val[i]]
                /\ id_of(dict, last.records[i][j]) = last.val[i]

\* a row matched an existing entity by one value and its other value, unknown
\* before the call, is now an alias of that entity
C16_Witness ==
    /\ last.op = "id_of_df"
    /\ last.flag2
    /\ last.err = "ok"
    /\ \E i \in DOMAIN last.records : \E j \in DOMAIN last.records[i] :
            /\ last.val[i] \in DOMAIN prev.dict
            /\ last.records[i][j] \notin all_aliases(prev.dict)
            /\ last.records[i][j] \in dict[last.val[i]]

\* C17: new entities from rows. When id_of_df with expect_new_entities on
\* processes a row none of whose candidate values is registered, it creates
\* one new entity whose alias set is the row's candidate values, for either
\* value of collect_new_aliases, so that a later row of the same table with
\* the same values resolves to the same entity.
C17_NewEntityFromRow ==
    (last.op = "id_of_df" /\ last.flag /\ last.err = "ok") =>
        \A i \in DOMAIN last.records :
            DfHits(i) = {} =>
                /\ last.val[i] = DfUpTo(i - 1).next_id
                /\ DfUpTo(i).next_id = DfUpTo(i - 1).next_id + 1
                /\ DfUpTo(i).dict[last.val[i]] = Range(last.records[i])
                /\ \A k \in DOMAIN last.records :
                        (k > i /\ last.records[k] = last.records[i]) =>
                            last.val[k] = last.val[i]

\* C18: unknown row without expect_new. id_of_df with expect_new_entities off,
\* on a table with a row none of whose candidate values is registered, fails
\* with AliasNotFoundException, and after the failure the store is as it was
\* before the call: nothing collected from, or created for, the earlier rows
\* remains.
C18_UnknownRowAtomic ==
    (/\ last.op = "id_of_df"
     /\ ~last.flag
     /\ \E i \in DOMAIN last.records :
            Registered(prev.dict, last.records[i]) = {})
    => /\ last.err = "AliasNotFoundException"
       /\ StoreUntouched

\* C19: duplicate derived IDs. Whenever two rows of the table resolve to the
\* same entity ID, id_of_df succeeds and returns the repeated ID for both
\* rows, while reindex_by_id on the same table fails (ValueError) instead of
\* dropping a row; and when reindex_by_id succeeds its result has one row key
\* per original row, in the original order, the keys being the derived IDs.
C19_DuplicateIds ==
    last.op = "reindex_by_id" =>
        LET ids == id_of_df(prev, last.records, last.flag, last.flag2)
        IN /\ (ids.err = "ok" /\ ~Distinct(ids.val)) =>
                    /\ last.err = "ValueError"
                    /\ last.val.result = None
           /\ last.err = "ok" =>
                    /\ ids.err = "ok"
                    /\ Len(last.val.result) = Len(last.records)
                    /\ \A i \in DOMAIN last.records :
                            last.val.result[i] = ids.val[i]

\* two rows with a registered value of the same entity: reindex_by_id raised
\* ValueError where id_of_df returns that entity's ID twice
C19_Witness ==
    /\ last.op = "reindex_by_id"
    /\ last.err = "ValueError"
    /\ Len(last.records) = 2
    /\ LET ids == id_of_df(prev, last.records, last.flag, last.flag2)
       IN /\ ids.err = "ok"
          /\ ids.val[1] = ids.val[2]
          /\ ids.val[1] \in DOMAIN prev.dict

\* C20: in-place switch. reindex_by_id re-keys the caller's table itself only
\* when inplace is True; with inplace False, the default, the caller's table
\* keeps its original row keys and the re-keyed table is a separate one.
C20_InplaceSwitch ==
    (last.op = "reindex_by_id" /\ last.err = "ok" /\ Len(last.records) > 0) =>
        /\ last.inplace => last.val.df = last.val.result
        /\ ~last.inplace =>
                /\ last.val.df = RangeIndex(Len(last.records))
                /\ last.val.result # last.val.df

\* the members of a set of numbers, as the increasing sequence of them
Ascending(S) ==
    CHOOSE f \in [1..Cardinality(S) -> S] :
        \A i, j \in 1..Cardinality(S) : i < j => f[i] < f[j]

\* the destination groups of the observed call none of whose aliases the
\* store knows
UnmatchedGroups ==
    {i \in DOMAIN last.records :
        Range(last.records[i]) \cap all_aliases(prev.dict) = {}}

\* C21: unmatched destination side. get_unmatched_entities treats a
\* destination alias group as matched exactly when at least one of its
\* aliases is registered; the unmatched-destination list it returns holds the
\* first alias of each group with no registered alias, one label per such
\* group, in the order the groups were given.
C21_UnmatchedDest ==
    (last.op = "get_unmatched_entities" /\ last.err = "ok") =>
        /\ Len(last.val.dest) = Cardinality(UnmatchedGroups)
        /\ \A k \in DOMAIN last.val.dest :
                last.val.dest[k] = last.records[Ascending(UnmatchedGroups)[k]][1]

\* of two groups, the first has a registered and an unregistered alias and is
\* left out, the second has two unregistered aliases and is listed by its
\* first
C21_Witness ==
    /\ last.op = "get_unmatched_entities"
    /\ last.err = "ok"
    /\ Len(last.records) = 2
    /\ Range(last.records[1]) \cap all_aliases(dict) # {}
    /\ Range(last.records[1]) \ all_aliases(dict) # {}
    /\ Len(last.records[2]) = 2
    /\ last.records[2][1] # last.records[2][2]
    /\ last.val.dest = <<last.records[2][1]>>

\* the entities that a matched destination group of the observed call
\* resolves to
MatchedDestIds ==
    {e \in DOMAIN prev.dict :
        \E i \in DOMAIN last.records : OwnersOf(prev.dict, last.records[i]) = {e}}

\* the positions of the input IDs that no matched destination group resolves to
UnmatchedInputs == {i \in DOMAIN last.ids : last.ids[i] \notin MatchedDestIds}

\* C22: unmatched input side. An input ID contributes a label to the
\* unmatched-input list of get_unmatched_entities exactly when no matched
\* destination group resolves to that ID; the label is best_effort_alias of
\* the ID under best_effort_is_name, so an alias of that entity and a
\* name-like one when the entity has one; the labels are in the order of the
\* input IDs.
C22_UnmatchedInput ==
    (last.op = "get_unmatched_entities" /\ last.err = "ok") =>
        /\ Len(last.val.input) = Cardinality(UnmatchedInputs)
        /\ \A k \in DOMAIN last.val.input :
                LET id == last.ids[Ascending(UnmatchedInputs)[k]]
                IN /\ id \in DOMAIN prev.dict
                   /\ last.val.input[k] \in prev.dict[id]
                   /\ (prev.dict[id] \cap NameLike # {}) =>
                            last.val.input[k] \in NameLike

\* of two input IDs the first belongs to a matched destination group and is
\* left out; the second has a name-like alias and another one, and is listed
\* by the name-like one
C22_Witness ==
    /\ last.op = "get_unmatched_entities"
    /\ last.err = "ok"
    /\ Len(last.ids) = 2
    /\ last.ids[1] \in MatchedDestIds
    /\ last.ids[2] \in DOMAIN dict
    /\ dict[last.ids[2]] \ NameLike # {}
    /\ Len(last.val.input) = 1
    /\ last.val.input[1] \in dict[last.ids[2]] \cap NameLike

\* the mapping of the observed reconciliation has unmatched input labels as
\* keys and distinct unmatched destination labels as values
MappingOfLabels ==
    /\ \A i \in DOMAIN last.records :
            /\ last.records[i][1] \in Range(pend.input)
            /\ last.records[i][2] \in Range(pend.dest)
    /\ \A i, j \in DOMAIN last.records :
            i # j => last.records[i][2] # last.records[j][2]

\* C23: reconciliation result. When the matcher returns a mapping whose keys
\* are unmatched input labels and whose values are distinct unmatched
\* destination labels, associate_unrecognized_entities succeeds and
\* afterwards, for every pair, id_of(destination label) is the ID of the
\* entity the key label belonged to; every entity keeps its ID and the
\* aliases it had, and no entity is created.
C23_ReconcileResult ==
    (/\ last.op = "reconcile"
     /\ last.flag
     /\ last.err # "MatcherRaised"
     /\ MappingOfLabels)
    => /\ last.err = "ok"
       /\ \A i \in DOMAIN last.records :
            /\ id_of(prev.dict, last.records[i][1]) # None
            /\ id_of(dict, last.records[i][2]) = id_of(prev.dict, last.records[i][1])
       /\ next_id = prev.next_id
       /\ DOMAIN dict = DOMAIN prev.dict
       /\ \A e \in DOMAIN prev.dict : prev.dict[e] \subseteq dict[e]

\* the matcher paired two input labels with two destination labels, and each
\* destination label now resolves to its input label's entity
C23_Witness ==
    /\ last.op = "reconcile"
    /\ last.flag
    /\ last.err = "ok"
    /\ MappingOfLabels
    /\ Len(last.records) = 2
    /\ id_of(dict, last.records[1][2]) # id_of(dict, last.records[2][2])
    /\ \A i \in DOMAIN last.records :
            /\ last.records[i][2] \notin all_aliases(prev.dict)
            /\ id_of(dict, last.records[i][2]) = id_of(dict, last.records[i][1])

\* C24: mutation only after the matcher returns. While
\* associate_unrecognized_entities computes the unmatched labels and while
\* its matcher is pending, the store is as it was when the reconciliation was
\* called; so when computing the labels fails, or the matcher raises or is
\* cancelled (or never returns), the store is exactly as before the call.
C24_NoMutationBeforeReturn ==
    /\ pend.waiting => cur = pend.start
    /\ (last.op = "reconcile" /\ last.err = "MatcherRaised") =>
            cur = pend.start /\ StoreUntouched
    /\ (last.op = "reconcile" /\ ~last.flag) => StoreUntouched

\* a matcher that had been handed labels of both sides raised, on a store
\* with entities
C24_Witness ==
    /\ last.op = "reconcile"
    /\ last.err = "MatcherRaised"
    /\ pend.input # << >>
    /\ pend.dest # << >>
    /\ dict # << >>
    /\ cur = pend.start

\* C25: reconciliation atomic on failure. When a pair the matcher returned
\* cannot be merged (its labels belong to different entities, or neither is
\* registered), associate_unrecognized_entities fails with ValueError or
\* AliasNotFoundException and the store is as it was before the call: merges
\* of earlier pairs of the same mapping are not kept.
C25_ReconcileAtomic ==
    (/\ last.op = "reconcile"
     /\ last.flag
     /\ last.err \notin {"ok", "MatcherRaised"})
    => /\ last.err \in {"ValueError", "AliasNotFoundException"}
       /\ StoreUntouched

\* no thread is in the middle of a call
Quiescent == \A t \in Threads : calls[t].pc = "idle"

\* two entities for one alias or identity: an alias in the sets of two
\* entities, or an entity left without aliases
DuplicateOrEmptyEntity ==
    \/ \E e1, e2 \in DOMAIN dict : e1 # e2 /\ dict[e1] \cap dict[e2] # {}
    \/ \E e \in DOMAIN dict : dict[e] = {}

\* C26: no protection against interleaving. Two calls of add_together
\* (allow_new) or id_of_df (expect_new_entities) for the same unregistered
\* alias that interleave between the lookup and the insertion can each create
\* an entity, which leaves duplicate entities for the alias or an entity
\* without aliases; when the calls run one at a time no such state is
\* reached.
C26_OneAtATimeSafe ==
    (Quiescent /\ ~overlap) => ~DuplicateOrEmptyEntity

\* C27: the matcher's mapping. The dict StudentAliasMatchElement hands back
\* has input (user) labels as keys and destination (dest) labels as values,
\* whichever list is longer: when the lists were swapped for display the
\* pairs are swapped back, so every item is a pair the user made, from its
\* user label to its dest label.
C27_MatcherMapping ==
    gui.set =>
        \A k \in DOMAIN gui.data :
            /\ k \in Range(gui.user)
            /\ gui.data[k] \in Range(gui.dest)
            /\ \E i \in DOMAIN gui.left_all, j \in DOMAIN gui.right_all :
                    IF gui.flip
                    THEN gui.right_all[j] = k /\ gui.left_all[i] = gui.data[k]
                    ELSE gui.left_all[i] = k /\ gui.right_all[j] = gui.data[k]

\* with two user labels and one dest label the lists were swapped, and the
\* dict maps the user label to the dest label
C27_Witness ==
    /\ gui.set
    /\ gui.flip
    /\ Len(gui.user) = 2
    /\ gui.left_all = <<"Name Two">>
    /\ DOMAIN gui.data = {"student@mail.com"}
    /\ gui.data["student@mail.com"] = "Name Two"

\* C28: the name-likeness heuristic. With one parenthesised part removed,
\* best_effort_is_name returns true only for strings with no digit and no
\* comma, at least two space-separated words, and a first word and a last
\* word that each hold an uppercase letter or a non-alphabetic character.
C28_NameLikeness ==
    (last.op = "best_effort_is_name" /\ last.val.bool) =>
        LET s == strip_paren(last.aliases)
            marked(w) == \E i \in DOMAIN w : w[i] \in Upper \/ ~isalpha(w[i])
        IN /\ \A i \in DOMAIN s : s[i] \notin Digit /\ s[i] # ","
           /\ word_count(s) >= 2
           /\ marked(first_word(s))
           /\ marked(last_word(s))

\* C29: alias bindings are stable. No step of any operation removes an alias,
\* moves it to another entity, deletes an entity or unifies two entities:
\* every entity is still there after the step with at least the aliases it
\* had, id_of of every registered alias gives the entity it gave before, and
\* the number of entities has not gone down.
C29_StableBindings ==
    [][/\ \A e \in DOMAIN dict : e \in DOMAIN dict' /\ dict[e] \subseteq dict'[e]
       /\ \A a \in all_aliases(dict) : id_of(dict', a) = id_of(dict, a)
       /\ Cardinality(DOMAIN dict') >= Cardinality(DOMAIN dict)]_vars

\* a call has added an alias to an entity that had one already, next to a
\* second entity with an alias of its own, and both kept what they had
C29_Witness ==
    /\ last.op \in {"add_at_id", "add_together"}
    /\ last.err = "ok"
    /\ \E e1, e2 \in DOMAIN prev.dict :
        /\ e1 # e2
        /\ prev.dict[e1] # {}
        /\ prev.dict[e2] # {}
        /\ prev.dict[e1] \subseteq dict[e1]
        /\ prev.dict[e1] # dict[e1]
        /\ dict[e2] = prev.dict[e2]

\* the observed call is one of the operations that only look things up
ReadOnlyCall ==
    \/ last.op \in {"get_unmatched_entities", "id_of", "id_together",
                    "all_aliases_of", "best_effort_alias", "find_mutual_alias",
                    "__contains__"}
    \/ last.op = "id_of_df" /\ ~last.flag /\ ~last.flag2

\* C30: read-only operations have no effect on the store. get_unmatched_entities,
\* id_of, id_together, all_aliases_of, best_effort_alias, find_mutual_alias,
\* the membership test, and id_of_df with expect_new = false and collect_new =
\* false leave the entity IDs, every alias set and the next ID as they were,
\* whether they return or raise.
C30_ReadOnly == ReadOnlyCall => StoreUntouched

\* id_of_df without expect_new and collect_new has gone over a table with a
\* row that holds a registered alias next to an unregistered one
C30_Witness ==
    /\ last.op = "id_of_df"
    /\ ~last.flag
    /\ ~last.flag2
    /\ last.err = "ok"
    /\ \E i \in DOMAIN last.records :
        /\ Range(last.records[i]) \cap all_aliases(prev.dict) # {}
        /\ Range(last.records[i]) \ all_aliases(prev.dict) # {}

====
